---- MODULE Spec2Model ----
(***************************************************************************)
(* Context Vault API (src/main.py): a FastAPI facade over a Supabase       *)
(* (PostgREST) table.  The model covers the module-level configuration     *)
(* load, the four route handlers and the upstream table they call.         *)
(*                                                                         *)
(* Python values are modelled as follows.                                  *)
(*   Optional[T]      None is <<>>, a present value v is <<v>>             *)
(*   str              a TLA+ string; f-strings are built with \o           *)
(*   dict             a function from keys to values; {} is <<>>           *)
(*   JSON value       a tagged record, see JNull .. JInvalid               *)
(*   exception        a record [type, status_code, detail]                 *)
(* An error detail is the sequence of the pieces its f-string joins, so    *)
(* that "the detail contains the upstream text" is a membership test.      *)
(***************************************************************************)
EXTENDS Integers, Sequences, FiniteSets, TLC

VARIABLES
    env,                    \* the process environment read by os.getenv
    proc,                   \* "loading" | "serving" | "aborted"
    SUPABASE_URL,           \* module global, Optional[str]
    SUPABASE_SERVICE_KEY,   \* module global, Optional[str]
    clock,                  \* what datetime.utcnow() returns
    table,                  \* the upstream context_vault table, in insertion order
    reqs                    \* one record per inbound request

vars == <<env, proc, SUPABASE_URL, SUPABASE_SERVICE_KEY, clock, table, reqs>>

-----------------------------------------------------------------------------
(* Bounds *)

MaxReq == 2         \* inbound requests of one run
MaxClock == 1       \* the clock runs over 0 .. MaxClock

Reqs == 1 .. MaxReq

-----------------------------------------------------------------------------
(* Python and JSON values *)

None == <<>>
Some(v) == <<v>>

\* Python truthiness of an Optional[str]: None and "" are both falsy.
Truthy(o) == o # None /\ o[1] # ""

Range(s) == {s[i] : i \in DOMAIN s}

JNull == [t |-> "null"]
JObj(d) == [t |-> "object", v |-> d]
JArr(s) == [t |-> "array", v |-> s]
JInvalid == [t |-> "invalid"]      \* a body that is not JSON: json() raises

EmptyDict == <<>>

\* datetime.isoformat() of the clock value t
IsoFormat(t) == "2026-01-01T00:00:0" \o ToString(t)

RECURSIVE Join(_, _)
\* sep.join(parts)
Join(parts, sep) ==
    IF parts = <<>> THEN ""
    ELSE IF Len(parts) = 1 THEN parts[1]
    ELSE parts[1] \o sep \o Join(Tail(parts), sep)

-----------------------------------------------------------------------------
(* Module load: configuration *)

EnvValues == {None, Some(""), Some("https://db.example")}
KeyValues == {None, Some(""), Some("service-key")}

\* `not SUPABASE_URL or not SUPABASE_SERVICE_KEY`
ConfigMissing(url, key) == ~Truthy(url) \/ ~Truthy(key)

\* A load that checks the URL only.
LoadedStateUrlOnly(url, key) == IF ~Truthy(url) THEN "aborted" ELSE "serving"

\* Lines 21-25: both globals are read from the environment, then the module
\* raises ValueError (the process never serves) when either is falsy.
LoadedState(url, key) == IF ConfigMissing(url, key) THEN "aborted" ELSE "serving"

LoadModule ==
    /\ proc = "loading"
    /\ SUPABASE_URL' = env.SUPABASE_URL
    /\ SUPABASE_SERVICE_KEY' = env.SUPABASE_SERVICE_KEY
    /\ proc' = LoadedState(env.SUPABASE_URL, env.SUPABASE_SERVICE_KEY)
    /\ UNCHANGED <<env, clock, table, reqs>>

-----------------------------------------------------------------------------
(* save: request parsing and the forwarded request *)

Absent == [t |-> "absent"]

\* class ContextData: the declared fields only; a field the model does not
\* declare (such as created_at) is dropped, an absent or null metadata is None.
ContextData(body) ==
    [user_id      |-> body.user_id,
     context_type |-> body.context_type,
     context_data |-> body.context_data,
     metadata     |-> IF body.metadata.t = "object" THEN Some(body.metadata.v) ELSE None]

\* A payload that forwards context.metadata as it is.
MetadataAsGiven(m) == m

\* `context.metadata or {}`: None and the empty dict are falsy.
MetadataOrEmpty(m) == IF m = None \/ m[1] = EmptyDict THEN Some(EmptyDict) ELSE m

\* Lines 70-76: the payload dict.
SavePayload(context, now) ==
    [user_id      |-> context.user_id,
     context_type |-> context.context_type,
     context_data |-> context.context_data,
     metadata     |-> MetadataOrEmpty(context.metadata),
     created_at   |-> IsoFormat(now)]

\* json=payload: the JSON document that goes on the wire.
JsonOfPayload(p) ==
    [user_id      |-> p.user_id,
     context_type |-> p.context_type,
     context_data |-> JObj(p.context_data),
     metadata     |-> IF p.metadata = None THEN JNull ELSE JObj(p.metadata[1]),
     created_at   |-> p.created_at]

\* A handler that lets a created_at of the request body through.
ForwardedJsonTrusting(body, now) ==
    [JsonOfPayload(SavePayload(ContextData(body), now)) EXCEPT
        !.created_at = IF body.created_at # None THEN body.created_at[1] ELSE @]

\* Lines 51 and 70-82: the request body is parsed into ContextData by the
\* handler's signature, the payload is built from it and sent as JSON.
ForwardedJson(body, now) == JsonOfPayload(SavePayload(ContextData(body), now))

WriteHeaders(key) ==
    [apikey        |-> key,
     Authorization |-> "Bearer " \o key,
     ContentType   |-> "application/json",
     Prefer        |-> "return=representation"]

ReadHeaders(key) ==
    [apikey        |-> key,
     Authorization |-> "Bearer " \o key,
     ContentType   |-> "application/json"]

TablePath == "/rest/v1/context_vault"

-----------------------------------------------------------------------------
(* query: the upstream URL *)

\* A filters list that forgets the context_type filter.
QueryFiltersUserOnly(user_id, context_type) ==
    IF Truthy(user_id) THEN <<"user_id=eq." \o user_id[1]>> ELSE <<>>

\* Lines 131-135: the filters list.
QueryFilters(user_id, context_type) ==
    (IF Truthy(user_id) THEN <<"user_id=eq." \o user_id[1]>> ELSE <<>>)
    \o (IF Truthy(context_type) THEN <<"context_type=eq." \o context_type[1]>> ELSE <<>>)

\* A query string without the order term.
QueryTermsUnordered(user_id, context_type, limit) ==
    QueryFilters(user_id, context_type) \o <<"limit=" \o ToString(limit)>>

\* Lines 139 and 141: the "&"-separated terms of the query string.
QueryTerms(user_id, context_type, limit) ==
    LET filters == QueryFilters(user_id, context_type)
    IN  IF filters # <<>>
        THEN filters \o <<"limit=" \o ToString(limit), "order=created_at.desc">>
        ELSE <<"limit=" \o ToString(limit), "order=created_at.desc">>

\* Lines 137-141: the URL string.
QueryUrl(base, user_id, context_type, limit) ==
    LET filters == QueryFilters(user_id, context_type)
    IN  IF filters # <<>>
        THEN base \o TablePath \o "?"
             \o Join(filters \o <<"limit=" \o ToString(limit), "order=created_at.desc">>, "&")
        ELSE base \o TablePath \o "?limit=" \o ToString(limit) \o "&order=created_at.desc"

-----------------------------------------------------------------------------
(* The upstream table store (PostgREST) *)

DefaultLimit == 10

\* An HTTP response of the upstream, and a call that obtained none.
Response(status, text, json) ==
    [kind |-> "response", status_code |-> status, text |-> text, json |-> json]
Failure(type, msg) ==
    [kind |-> "failure", exc |-> [type |-> type, msg |-> msg]]

\* The row the store creates for a POSTed document; the store assigns the id.
InsertedRow(json, tbl) ==
    [id           |-> "row" \o ToString(Len(tbl) + 1),
     user_id      |-> json.user_id,
     context_type |-> json.context_type,
     context_data |-> json.context_data,
     metadata     |-> json.metadata,
     created_at   |-> json.created_at]

\* What the store may answer to a POST it applied: the created row in an array
\* (return=representation), the bare row object, an empty array, or a body that
\* is not JSON.
PostReplies(row) ==
    {Response(201, "[row]", JArr(<<row>>)),
     Response(200, "row", JObj(row)),
     Response(201, "[]", JArr(<<>>)),
     Response(201, "", JInvalid)}

\* What the store may answer when it does not apply the request.
Rejections ==
    {Response(400, "bad request", JInvalid),
     Response(503, "upstream unavailable", JInvalid)}

\* No response at all: httpx raises a subclass of httpx.HTTPError.
TransportFailures == {Failure("ConnectError", "All connection attempts failed")}

\* The clock value a created_at string was formatted from (0 when it is none).
ParseIso(s) ==
    IF \E t \in 0 .. MaxClock : IsoFormat(t) = s
    THEN CHOOSE t \in 0 .. MaxClock : IsoFormat(t) = s
    ELSE 0

\* A row passes an eq filter on a column iff the term names the row's value.
RowMatches(row, terms) ==
    \A k \in DOMAIN terms :
        /\ (\E v \in {"", "u1", "u2", "u3"} : terms[k] = "user_id=eq." \o v)
               => terms[k] = "user_id=eq." \o row.user_id
        /\ (\E v \in {"", "note", "pref"} : terms[k] = "context_type=eq." \o v)
               => terms[k] = "context_type=eq." \o row.context_type

\* created_at descending; rows of equal created_at in insertion order.
RowBefore(tbl, i, j) ==
    \/ ParseIso(tbl[i].created_at) > ParseIso(tbl[j].created_at)
    \/ ParseIso(tbl[i].created_at) = ParseIso(tbl[j].created_at) /\ i < j

RECURSIVE SortedIdx(_, _)
SortedIdx(tbl, I) ==
    IF I = {} THEN <<>>
    ELSE LET m == CHOOSE i \in I : \A j \in I \ {i} : RowBefore(tbl, i, j)
         IN  <<m>> \o SortedIdx(tbl, I \ {m})

Orderings(I) ==
    {s \in [1 .. Cardinality(I) -> I] : \A a, b \in DOMAIN s : a # b => s[a] # s[b]}

LimitOf(terms, n) ==
    IF \E l \in 0 .. DefaultLimit : ("limit=" \o ToString(l)) \in Range(terms)
    THEN LET l == CHOOSE l \in 0 .. DefaultLimit : ("limit=" \o ToString(l)) \in Range(terms)
         IN  IF l < n THEN l ELSE n
    ELSE n

\* The row sequences a GET with these query terms may return: the matching
\* rows, in created_at.desc order when the order term is present and in any
\* order otherwise, cut at the limit.
Select(terms, tbl) ==
    LET I == {i \in DOMAIN tbl : RowMatches(tbl[i], terms)}
        orders == IF "order=created_at.desc" \in Range(terms)
                  THEN {SortedIdx(tbl, I)}
                  ELSE Orderings(I)
    IN  {[k \in 1 .. LimitOf(terms, Len(o)) |-> tbl[o[k]]] : o \in orders}

\* What the store may answer to a GET it serves: the selected rows, or (a
\* proxy or a misconfigured store) a 200 whose body is JSON null.
GetReplies(terms, tbl) ==
    {Response(200, "[rows]", JArr(rows)) : rows \in Select(terms, tbl)}
    \cup {Response(200, "null", JNull)}

-----------------------------------------------------------------------------
(* Handler results *)

HTTPException(status, detail) ==
    [type |-> "HTTPException", status_code |-> status, detail |-> detail]

\* The subclasses of httpx.HTTPError the model raises.
HttpxErrors == {"ConnectError"}

\* str(e), as the pieces of the message.  For an HTTPException raised with
\* keyword arguments it depends on the installed Starlette: "<status>: <detail>"
\* where the class defines __str__, the empty string where it does not.
StrOf(e) ==
    IF e.type = "HTTPException"
    THEN {<<>>, <<ToString(e.status_code), ": ">> \o e.detail}
    ELSE {<<e.msg>>}

Return(value) == [ok |-> TRUE, value |-> value]
Raise(e) == [ok |-> FALSE, exc |-> e]

\* What the framework sends for a returned dict and for a raised HTTPException.
Reply(value) == [status_code |-> 200, content |-> value]
ErrorReply(e) == [status_code |-> e.status_code, content |-> [detail |-> e.detail]]

\* Lines 42-48.
root == Reply([message   |-> "Context Vault API",
               version   |-> "1.0.0",
               endpoints |-> <<"/vault/save", "/vault/context">>])

\* Lines 163-166.
health_check(now) == Reply([status |-> "healthy", timestamp |-> IsoFormat(now)])

\* A try block that returns the upstream body whole, array or not.
SaveTryWholeBody(outcome) ==
    IF outcome.kind = "failure" THEN Raise(outcome.exc)
    ELSE IF outcome.status_code \notin {200, 201}
    THEN Raise(HTTPException(outcome.status_code,
                             <<"Failed to save context: ", outcome.text>>))
    ELSE IF outcome.json = JInvalid
    THEN Raise([type |-> "JSONDecodeError", msg |-> "Expecting value"])
    ELSE Return([success |-> TRUE,
                 message |-> "Context saved successfully",
                 data    |-> outcome.json])

\* Lines 78-95: the try block of save_context from the await on.
SaveTry(outcome) ==
    IF outcome.kind = "failure" THEN Raise(outcome.exc)
    ELSE IF outcome.status_code \notin {200, 201}
    THEN Raise(HTTPException(outcome.status_code,
                             <<"Failed to save context: ", outcome.text>>))
    ELSE IF outcome.json = JInvalid
    THEN Raise([type |-> "JSONDecodeError", msg |-> "Expecting value"])
    ELSE IF outcome.json.t = "array" /\ outcome.json.v = <<>>
    THEN Raise([type |-> "IndexError", msg |-> "list index out of range"])
    ELSE Return([success |-> TRUE,
                 message |-> "Context saved successfully",
                 data    |-> IF outcome.json.t = "array"
                             THEN outcome.json.v[1]
                             ELSE outcome.json])

\* Except clauses that answer a transport failure with 502.
SaveExceptBadGateway(e) ==
    IF e.type \in HttpxErrors
    THEN {HTTPException(502, <<"HTTP error occurred: ", e.msg>>)}
    ELSE {HTTPException(500, <<"Error saving context: ">> \o m) : m \in StrOf(e)}

\* Lines 97-100: the except clauses of save_context.  HTTPException is no
\* httpx.HTTPError, so the one raised at line 85 reaches `except Exception`.
SaveExcept(e) ==
    IF e.type \in HttpxErrors
    THEN {HTTPException(500, <<"HTTP error occurred: ", e.msg>>)}
    ELSE {HTTPException(500, <<"Error saving context: ">> \o m) : m \in StrOf(e)}

Reverse(s) == [k \in 1 .. Len(s) |-> s[Len(s) + 1 - k]]

\* A try block that re-sorts the rows oldest first before it returns them.
QueryTryResorted(outcome) ==
    IF outcome.kind = "failure" THEN Raise(outcome.exc)
    ELSE IF outcome.status_code # 200
    THEN Raise(HTTPException(outcome.status_code,
                             <<"Failed to retrieve context: ", outcome.text>>))
    ELSE IF outcome.json = JInvalid
    THEN Raise([type |-> "JSONDecodeError", msg |-> "Expecting value"])
    ELSE IF outcome.json.t = "null"
    THEN Raise([type |-> "TypeError",
                msg  |-> "object of type 'NoneType' has no len()"])
    ELSE Return([success |-> TRUE,
                 count   |-> Len(outcome.json.v),
                 data    |-> Reverse(outcome.json.v)])

\* Lines 143-156: the try block of get_context from the await on.
QueryTry(outcome) ==
    IF outcome.kind = "failure" THEN Raise(outcome.exc)
    ELSE IF outcome.status_code # 200
    THEN Raise(HTTPException(outcome.status_code,
                             <<"Failed to retrieve context: ", outcome.text>>))
    ELSE IF outcome.json = JInvalid
    THEN Raise([type |-> "JSONDecodeError", msg |-> "Expecting value"])
    ELSE IF outcome.json.t = "null"
    THEN Raise([type |-> "TypeError",
                msg  |-> "object of type 'NoneType' has no len()"])
    ELSE Return([success |-> TRUE,
                 count   |-> IF outcome.json.t = "array"
                             THEN Len(outcome.json.v)
                             ELSE Cardinality(DOMAIN outcome.json.v),
                 data    |-> IF outcome.json.t = "array"
                             THEN outcome.json.v
                             ELSE outcome.json])

\* Lines 158-161: the except clauses of get_context.
QueryExcept(e) ==
    IF e.type \in HttpxErrors
    THEN {HTTPException(500, <<"HTTP error occurred: ", e.msg>>)}
    ELSE {HTTPException(500, <<"Error retrieving context: ">> \o m) : m \in StrOf(e)}

\* The replies a handler may give, from its try block and its except clauses.
Replies(result, handlers) ==
    IF result.ok THEN {Reply(result.value)}
    ELSE {ErrorReply(x) : x \in handlers}

-----------------------------------------------------------------------------
(* Requests *)

NoValue == <<>>

Idle ==
    [st |-> "idle", kind |-> "none", input |-> NoValue, sent |-> NoValue,
     calls |-> 0, upstream |-> NoValue, version |-> 0, resp |-> NoValue]

\* Requests are numbered in the order they arrive.
Arrives(i) ==
    /\ proc = "serving"
    /\ reqs[i].st = "idle"
    /\ IF i = 1 THEN TRUE ELSE reqs[i - 1].st # "idle"

\* save_context up to `await client.post(...)`: one POST is issued.
SaveAwait(body, now) ==
    [Idle EXCEPT
        !.st = "awaiting", !.kind = "save", !.input = body,
        !.sent = [method  |-> "POST",
                  url     |-> SUPABASE_URL[1] \o TablePath,
                  headers |-> WriteHeaders(SUPABASE_SERVICE_KEY[1]),
                  json    |-> ForwardedJson(body, now),
                  at      |-> now],
        !.calls = 1]

\* A handler that POSTs a second time when the first call got no response.
SaveResumeRetry(r, outcome) ==
    IF outcome.kind = "failure" /\ r.calls = 1
    THEN {[r EXCEPT !.calls = 2]}
    ELSE {[r EXCEPT !.st = "done", !.upstream = outcome, !.resp = x] :
             x \in Replies(SaveTry(outcome),
                           IF SaveTry(outcome).ok THEN {}
                           ELSE SaveExcept(SaveTry(outcome).exc))}

\* save_context from the await to its reply: no further call is issued.
SaveResume(r, outcome) ==
    {[r EXCEPT !.st = "done", !.upstream = outcome, !.resp = x] :
        x \in Replies(SaveTry(outcome),
                      IF SaveTry(outcome).ok THEN {}
                      ELSE SaveExcept(SaveTry(outcome).exc))}

\* get_context up to `await client.get(...)`: one GET is issued.
QueryAwait(params) ==
    [Idle EXCEPT
        !.st = "awaiting", !.kind = "query", !.input = params,
        !.sent = [method  |-> "GET",
                  url     |-> QueryUrl(SUPABASE_URL[1], params.user_id,
                                       params.context_type, params.limit),
                  terms   |-> QueryTerms(params.user_id, params.context_type,
                                         params.limit),
                  headers |-> ReadHeaders(SUPABASE_SERVICE_KEY[1])],
        !.calls = 1]

\* get_context from the await to its reply.
QueryResume(r, outcome) ==
    {[r EXCEPT !.st = "done", !.upstream = outcome, !.resp = x] :
        x \in Replies(QueryTry(outcome),
                      IF QueryTry(outcome).ok THEN {}
                      ELSE QueryExcept(QueryTry(outcome).exc))}

Tick ==
    /\ clock < MaxClock
    /\ clock' = clock + 1
    /\ UNCHANGED <<env, proc, SUPABASE_URL, SUPABASE_SERVICE_KEY, table, reqs>>

Root(i) ==
    /\ Arrives(i)
    /\ reqs' = [reqs EXCEPT ![i] = [Idle EXCEPT !.st = "done", !.kind = "root",
                                                !.resp = root]]
    /\ UNCHANGED <<env, proc, SUPABASE_URL, SUPABASE_SERVICE_KEY, clock, table>>

Health(i) ==
    /\ Arrives(i)
    /\ reqs' = [reqs EXCEPT ![i] = [Idle EXCEPT !.st = "done", !.kind = "health",
                                                !.resp = health_check(clock)]]
    /\ UNCHANGED <<env, proc, SUPABASE_URL, SUPABASE_SERVICE_KEY, clock, table>>

SaveCall(i, body) ==
    /\ Arrives(i)
    /\ reqs' = [reqs EXCEPT ![i] = SaveAwait(body, clock)]
    /\ UNCHANGED <<env, proc, SUPABASE_URL, SUPABASE_SERVICE_KEY, clock, table>>

\* The store applies the POST and answers; the handler replies.
SaveApplied(i) ==
    /\ reqs[i].st = "awaiting" /\ reqs[i].kind = "save"
    /\ \E outcome \in PostReplies(InsertedRow(reqs[i].sent.json, table)) :
       \E r \in SaveResume([reqs[i] EXCEPT !.version = Len(table) + 1], outcome) :
           reqs' = [reqs EXCEPT ![i] = r]
    /\ table' = Append(table, InsertedRow(reqs[i].sent.json, table))
    /\ UNCHANGED <<env, proc, SUPABASE_URL, SUPABASE_SERVICE_KEY, clock>>

\* The store rejects the POST, or cannot be reached; the handler replies.
SaveFailed(i) ==
    /\ reqs[i].st = "awaiting" /\ reqs[i].kind = "save"
    /\ \E outcome \in Rejections \cup TransportFailures :
       \E r \in SaveResume([reqs[i] EXCEPT !.version = Len(table)], outcome) :
           reqs' = [reqs EXCEPT ![i] = r]
    /\ UNCHANGED <<env, proc, SUPABASE_URL, SUPABASE_SERVICE_KEY, clock, table>>

QueryCall(i, params) ==
    /\ Arrives(i)
    /\ reqs' = [reqs EXCEPT ![i] = QueryAwait(params)]
    /\ UNCHANGED <<env, proc, SUPABASE_URL, SUPABASE_SERVICE_KEY, clock, table>>

\* The store answers the GET, or fails to; the handler replies.
QueryAnswered(i) ==
    /\ reqs[i].st = "awaiting" /\ reqs[i].kind = "query"
    /\ \E outcome \in GetReplies(reqs[i].sent.terms, table)
                      \cup Rejections \cup TransportFailures :
       \E r \in QueryResume([reqs[i] EXCEPT !.version = Len(table)], outcome) :
           reqs' = [reqs EXCEPT ![i] = r]
    /\ UNCHANGED <<env, proc, SUPABASE_URL, SUPABASE_SERVICE_KEY, clock, table>>

-----------------------------------------------------------------------------
(* The service: module load, then requests in any interleaving *)

ContextDataValue == [text |-> "hi"]

Body(user_id, context_type, metadata, created_at) ==
    [user_id |-> user_id, context_type |-> context_type,
     context_data |-> ContextDataValue, metadata |-> metadata,
     created_at |-> created_at]

Params(user_id, context_type, limit) ==
    [user_id |-> user_id, context_type |-> context_type, limit |-> limit]

\* The rows the store holds when the service starts.
SeedTable ==
    <<[id |-> "row1", user_id |-> "u2", context_type |-> "note",
       context_data |-> JObj(ContextDataValue), metadata |-> JObj(EmptyDict),
       created_at |-> IsoFormat(0)],
      [id |-> "row2", user_id |-> "u1", context_type |-> "pref",
       context_data |-> JObj(ContextDataValue), metadata |-> JObj(EmptyDict),
       created_at |-> IsoFormat(0)]>>

Bodies == {Body("u1", "note", Absent, None)}

Queries ==
    {Params(None, None, 1), Params(None, None, DefaultLimit),
     Params(Some("u1"), None, DefaultLimit)}

Init ==
    /\ env \in [SUPABASE_URL : EnvValues, SUPABASE_SERVICE_KEY : KeyValues]
    /\ proc = "loading"
    /\ SUPABASE_URL = None
    /\ SUPABASE_SERVICE_KEY = None
    /\ clock = 0
    /\ table = SeedTable
    /\ reqs = [i \in Reqs |-> Idle]

Next ==
    \/ LoadModule
    \/ Tick
    \/ \E i \in Reqs : Root(i)
    \/ \E i \in Reqs : Health(i)
    \/ \E i \in Reqs, body \in Bodies : SaveCall(i, body)
    \/ \E i \in Reqs : SaveApplied(i)
    \/ \E i \in Reqs : SaveFailed(i)
    \/ \E i \in Reqs, params \in Queries : QueryCall(i, params)
    \/ \E i \in Reqs : QueryAnswered(i)

Spec == Init /\ [][Next]_vars

-----------------------------------------------------------------------------
(* One save request, over every request body shape *)

AllBodies ==
    {Body(u, c, m, t) :
        u \in {"u1", "u2", ""},
        c \in {"note", "pref"},
        m \in {Absent, JNull, JObj(EmptyDict), JObj([k |-> "v"])},
        t \in {None, Some("1999-12-31T23:59:59"), Some(IsoFormat(0))}}

\* The service after a successful module load.
InitServing ==
    /\ env = [SUPABASE_URL |-> Some("https://db.example"),
              SUPABASE_SERVICE_KEY |-> Some("service-key")]
    /\ proc = "serving"
    /\ SUPABASE_URL = env.SUPABASE_URL
    /\ SUPABASE_SERVICE_KEY = env.SUPABASE_SERVICE_KEY
    /\ clock = 0
    /\ table = SeedTable
    /\ reqs = [i \in Reqs |-> Idle]

NextSave ==
    \/ Tick
    \/ \E body \in AllBodies : SaveCall(1, body)
    \/ SaveApplied(1)
    \/ SaveFailed(1)

SpecSave == InitServing /\ [][NextSave]_vars

-----------------------------------------------------------------------------
(* One query request, over every combination of parameters *)

AllQueries ==
    {Params(u, c, l) :
        u \in {None, Some(""), Some("u1"), Some("u2")},
        c \in {None, Some(""), Some("note")},
        l \in {0, 1, 5, DefaultLimit}}

NextQuery ==
    \/ \E params \in AllQueries : QueryCall(1, params)
    \/ QueryAnswered(1)

SpecQuery == InitServing /\ [][NextQuery]_vars

-----------------------------------------------------------------------------
(* Properties *)

Handled(i) == reqs[i].st # "idle"
Forwarding(i) == Handled(i) /\ reqs[i].kind \in {"save", "query"}
Answered(i, kind) == reqs[i].st = "done" /\ reqs[i].kind = kind
GotResponse(i) == reqs[i].upstream.kind = "response"
IsError(resp) == DOMAIN resp.content = {"detail"}
SuccessStatuses(kind) == IF kind = "save" THEN {200, 201} ELSE {200}

\* C1: when the upstream answers a save with a status other than 200 and 201,
\* or a query with a status other than 200, the caller's error response has
\* the upstream's status code and its detail contains the upstream body text.
UpstreamStatusPropagated ==
    \A i \in Reqs :
        (/\ (Answered(i, "save") \/ Answered(i, "query"))
         /\ GotResponse(i)
         /\ reqs[i].upstream.status_code \notin SuccessStatuses(reqs[i].kind))
        => /\ reqs[i].resp.status_code = reqs[i].upstream.status_code
           /\ IsError(reqs[i].resp)
           /\ reqs[i].upstream.text \in Range(reqs[i].resp.content.detail)

\* The data save returns for a JSON body: result[0] for an array, else result.
SavedData(json) == IF json.t = "array" THEN json.v[1] ELSE json

SaveEnvelope(json) ==
    Reply([success |-> TRUE,
           message |-> "Context saved successfully",
           data    |-> SavedData(json)])

\* C2 as stated: whenever the upstream answers a save with 200 or 201, the
\* caller gets the success envelope, whatever the shape of the upstream body.
SaveSucceedsOnAnyBody ==
    \A i \in Reqs :
        (/\ Answered(i, "save")
         /\ GotResponse(i)
         /\ reqs[i].upstream.status_code \in {200, 201})
        => /\ ~IsError(reqs[i].resp)
           /\ reqs[i].resp = SaveEnvelope(reqs[i].upstream.json)

EnvelopeBody(json) ==
    /\ json # JInvalid
    /\ ~(json.t = "array" /\ json.v = <<>>)

\* C2, amended: whenever the upstream answers a save with 200 or 201 and a JSON
\* body that is a non-empty array or no array, the caller gets the success
\* envelope whose data is the array's first element, or the body itself; for
\* an empty array or a body that is not JSON the caller gets a 500 error.
SaveSucceedsOnUsableBody ==
    \A i \in Reqs :
        (/\ Answered(i, "save")
         /\ GotResponse(i)
         /\ reqs[i].upstream.status_code \in {200, 201})
        => IF EnvelopeBody(reqs[i].upstream.json)
           THEN reqs[i].resp = SaveEnvelope(reqs[i].upstream.json)
           ELSE IsError(reqs[i].resp) /\ reqs[i].resp.status_code = 500

SaveSucceedsOnUsableBodyWitness ==
    /\ Answered(1, "save")
    /\ reqs[1].upstream = Response(201, "[row]", JArr(<<table[Len(table)]>>))
    /\ reqs[1].resp.content.data = table[Len(table)]
    /\ reqs[1].resp.content.data.id = "row3"

UserTerms == {"user_id=eq." \o v : v \in {"", "u1", "u2"}}
TypeTerms == {"context_type=eq." \o v : v \in {"", "note"}}

\* The query terms are right for a request in which `user` and `type` tell
\* whether each filter counts as supplied.
TermsMatch(r, user, type) ==
    LET terms == Range(r.sent.terms)
        p == r.input
    IN  /\ IF user THEN terms \cap UserTerms = {"user_id=eq." \o p.user_id[1]}
                   ELSE terms \cap UserTerms = {}
        /\ IF type THEN terms \cap TypeTerms = {"context_type=eq." \o p.context_type[1]}
                   ELSE terms \cap TypeTerms = {}
        /\ ("limit=" \o ToString(p.limit)) \in terms
        /\ "order=created_at.desc" \in terms

\* C3 as stated: the query string has the term user_id=eq.<v> iff the caller
\* supplied a user_id v, the empty string included, the term context_type=eq.<v>
\* iff the caller supplied a context_type, and always the limit and order terms.
FilterIffSupplied ==
    \A i \in Reqs :
        (Handled(i) /\ reqs[i].kind = "query")
        => TermsMatch(reqs[i], reqs[i].input.user_id # None,
                      reqs[i].input.context_type # None)

\* C3, amended: the terms the service joins with "&" into the query string
\* include user_id=eq.<v> iff the caller supplied a non-empty user_id v, and
\* context_type=eq.<v> iff the caller supplied a non-empty context_type v (an
\* empty string counts as not supplied); limit=<n> and order=created_at.desc
\* are always among them.
FilterIffNonEmpty ==
    \A i \in Reqs :
        (Handled(i) /\ reqs[i].kind = "query")
        => TermsMatch(reqs[i], Truthy(reqs[i].input.user_id),
                      Truthy(reqs[i].input.context_type))

FilterIffNonEmptyWitness ==
    /\ reqs[1].st = "awaiting"
    /\ reqs[1].input = Params(Some("u1"), None, 5)
    /\ reqs[1].sent.url
         = "https://db.example/rest/v1/context_vault?user_id=eq.u1&limit=5&order=created_at.desc"

\* C4: a save or query request has issued exactly one upstream call from the
\* moment it awaits the upstream to its reply, whatever the outcome; it is
\* answered by the step that receives the outcome; root and health requests
\* issue no upstream call.
OneUpstreamCall ==
    \A i \in Reqs :
        /\ Forwarding(i) => reqs[i].calls = 1
        /\ (Forwarding(i) /\ reqs[i].upstream # NoValue)
               => reqs[i].st = "done" /\ reqs[i].resp # NoValue
        /\ (Handled(i) /\ reqs[i].kind \in {"root", "health"})
               => reqs[i].calls = 0 /\ reqs[i].sent = NoValue

OneUpstreamCallWitness ==
    /\ Answered(1, "save")
    /\ reqs[1].upstream.kind = "failure"
    /\ reqs[1].calls = 1
    /\ Answered(2, "health")

ConfigSet == Truthy(SUPABASE_URL) /\ Truthy(SUPABASE_SERVICE_KEY)

ServedOnlyWithConfig ==
    /\ ConfigMissing(env.SUPABASE_URL, env.SUPABASE_SERVICE_KEY)
           => \A i \in Reqs : ~Handled(i)
    /\ (\E i \in Reqs : Handled(i)) => proc = "serving" /\ ConfigSet

ConfigFrozen ==
    proc # "loading"
        => /\ SUPABASE_URL' = SUPABASE_URL
           /\ SUPABASE_SERVICE_KEY' = SUPABASE_SERVICE_KEY
           /\ proc' = proc

\* C5: when the base URL or the credential is missing from the environment no
\* request is ever handled; a request is handled only while the process serves
\* with both values set; once loaded, the two values never change.
ConfigRequired == []ServedOnlyWithConfig /\ [][ConfigFrozen]_vars

ConfigRequiredWitness ==
    /\ proc = "serving"
    /\ Answered(1, "root")
    /\ Forwarding(2)
    /\ reqs[2].sent.headers.apikey = SUPABASE_SERVICE_KEY[1]

\* C6: the created_at of every forwarded payload is the service's clock at the
\* call, in ISO format, whatever created_at the request body carried.
CreatedAtStamped ==
    \A i \in Reqs :
        (Handled(i) /\ reqs[i].kind = "save")
        => /\ reqs[i].sent.json.created_at = IsoFormat(reqs[i].sent.at)
           /\ reqs[i].sent.at <= clock

CreatedAtStampedWitness ==
    /\ Handled(1) /\ reqs[1].kind = "save"
    /\ reqs[1].input.created_at = Some("1999-12-31T23:59:59")
    /\ reqs[1].sent.json.created_at = IsoFormat(1)

\* C7: the metadata of every forwarded payload is a JSON object, never null:
\* the empty object when the request body had no metadata or a null one, and
\* the caller's object when it supplied a non-empty one.
MetadataNeverNull ==
    \A i \in Reqs :
        (Handled(i) /\ reqs[i].kind = "save")
        => LET given == reqs[i].input.metadata
               sent == reqs[i].sent.json.metadata
           IN  /\ sent.t = "object"
               /\ given \in {Absent, JNull} => sent = JObj(EmptyDict)
               /\ (given.t = "object" /\ given.v # EmptyDict) => sent = given

MetadataNeverNullWitness ==
    /\ Handled(1) /\ reqs[1].kind = "save"
    /\ reqs[1].input.metadata = Absent
    /\ reqs[1].sent.json.metadata = JObj(EmptyDict)

\* C8: when the upstream call of a save or query obtains no response, the
\* caller gets an error response of status 500 whose detail carries the
\* transport error's message, never a success envelope.
TransportFailureIs500 ==
    \A i \in Reqs :
        (/\ (Answered(i, "save") \/ Answered(i, "query"))
         /\ reqs[i].upstream.kind = "failure")
        => /\ reqs[i].resp.status_code = 500
           /\ IsError(reqs[i].resp)
           /\ reqs[i].upstream.exc.msg \in Range(reqs[i].resp.content.detail)

TransportFailureIs500Witness ==
    /\ Answered(1, "save") /\ reqs[1].upstream.kind = "failure"
    /\ Answered(2, "query") /\ reqs[2].upstream.kind = "failure"
    /\ reqs[2].resp.content.detail
         = <<"HTTP error occurred: ", "All connection attempts failed">>

\* C9: when the upstream answers a query with status 200 and a sequence of
\* records, the caller gets {success: true, count, data} where data is that
\* sequence, unchanged and in the same order, and count is its length.
QueryRelaysRows ==
    \A i \in Reqs :
        (/\ Answered(i, "query")
         /\ GotResponse(i)
         /\ reqs[i].upstream.status_code = 200
         /\ reqs[i].upstream.json.t = "array")
        => reqs[i].resp = Reply([success |-> TRUE,
                                 count   |-> Len(reqs[i].upstream.json.v),
                                 data    |-> reqs[i].upstream.json.v])

QueryRelaysRowsWitness ==
    /\ Answered(1, "query")
    /\ reqs[1].input = Params(None, None, 5)
    /\ reqs[1].resp.status_code = 200
    /\ reqs[1].resp.content.count = 2
    /\ reqs[1].resp.content.data = SeedTable

Succeeded(i) == Answered(i, "query") /\ ~IsError(reqs[i].resp)

====
